---- MODULE Spec2Model ----
(***************************************************************************)
(* The wallet workflow of src/src/index.ts and of the quick-start script   *)
(* src/unnamed/part_000.                                                   *)
(*                                                                         *)
(* The repository's code is an orchestration layer over the client of an   *)
(* external wallet package (DynamicEvmWalletClient) and a chain read       *)
(* client (viem).  Every call into them is an await whose outcome the      *)
(* code does not control: it returns, or it throws a value.  The model     *)
(* keeps each async function's position (pc), the calls it has made, what  *)
(* it has written to the console, and what its caller finally receives.    *)
(* The outcome of every external call is a nondeterministic choice.        *)
(***************************************************************************)
EXTENDS Naturals, Sequences, FiniteSets

VARIABLES
    pc,          \* pc[p]: the await the caller p's operation stands at
    op,          \* op[p]: the top-level function p called, with its arguments
    client,      \* op-local `evmClient` (0: not built yet)
    calls,       \* calls[p]: the external calls the operation has made, in order
    logged,      \* logged[p]: what the operation wrote to the console, in order
    result,      \* what the caller of the top-level function receives
    wallets,     \* addresses createWalletAccount has returned so far
    nextClient,  \* how many DynamicEvmWalletClient objects were constructed
    opsStarted   \* how many top-level calls were issued

vars == <<pc, op, client, calls, logged, result, wallets, nextClient, opsStarted>>

---------------------------------------------------------------------------
(* Bounds of the model. *)

\* Top-level calls issued in one behaviour.
MaxOps == 3

\* Wallet accounts the key-generation service mints in one behaviour.
MaxWallets == 2

\* The callers that may have a top-level call in flight.
Procs == {"p1", "p2"}

---------------------------------------------------------------------------
(* Values. *)

\* A thrown JavaScript value: an Error carrying a message, or any other value
\* (error instanceof Error is false).  A message is a sequence of text pieces,
\* so that the template `Wallet verification failed: ${errorMessage}` is a
\* concatenation.
Err(m) == [tag |-> "Error", message |-> <<m>>]

NonErr == [tag |-> "NonError", message |-> <<>>]

NoThrow == [tag |-> "None", message |-> <<>>]

\* Addresses: 1..MaxWallets are the accounts the service can mint for this
\* client; ForeignAddr is an address this client never created, as the
\* literal of demonstrateSecurity is.
ForeignAddr == 0

NoAddr == MaxWallets + 1

randomWalletAddress == ForeignAddr

\* The addresses a caller can name: those created so far, and the foreign one.
Addrs == wallets \cup {ForeignAddr}

\* `password?: string`: a string, or undefined.
Undefined == "undefined"

DefaultPassword == "your-secure-password"

MainPassword == "my-secure-password"

PasswordArgs == {Undefined, "", MainPassword}

\* What each external call may throw.  The values are the error kinds the
\* specification names for the service behind each call, and a non-Error value.
AuthThrows == {Err("InvalidCredential"), NonErr}

CreateThrows == {Err("CeremonyAborted"), Err("BackupFailed")}

ChainThrows == {Err("Unauthorized"), NonErr}

SignThrows == {Err("NoLocalShare"), Err("PasswordMismatch")}

VerifyThrows == {Err("Unauthenticated")}

\* What createWalletAccount may hand to the onError callback.
OnErrorValues == {Err("BackupFailed")}

Signatures == {"sig"}

\* One external call: the function, the client object it was made on, its
\* arguments, what it threw (NoThrow: it returned) and what it passed to the
\* onError callback while running.
\* `ret` is what it resolved to, as text ("" when that is not used).
Call(fn, c, a, pw, ret, thrown, onErr) ==
    [fn |-> fn, client |-> c, addr |-> a, password |-> pw, signature |-> "",
     ret |-> ret, thrown |-> thrown, onError |-> onErr]

\* A string written to the console, as a value of the same shape as a thrown one.
Text(m) == [tag |-> "Text", message |-> m]

\* One console.log / console.error: its fixed text and the value printed after it.
Log(tag, v) == [tag |-> tag, value |-> v]

NoValue == [kind |-> "undefined"]

Pending == [status |-> "pending", value |-> NoValue, thrown |-> NoThrow]

Returned(v) == [status |-> "returned", value |-> v, thrown |-> NoThrow]

Threw(e) == [status |-> "threw", value |-> NoValue, thrown |-> e]

Idle == [kind |-> "idle", addr |-> NoAddr, password |-> Undefined]

---------------------------------------------------------------------------
(* Pure helpers of the code. *)

\* error instanceof Error ? error.message : 'Unknown error'
ErrorMessage(e) == IF e.tag = "Error" THEN e.message ELSE <<"Unknown error">>

\* error instanceof Error ? error.message : 'Access denied'
AccessDeniedMessage(e) == IF e.tag = "Error" THEN e.message ELSE <<"Access denied">>

\* password || "your-secure-password": undefined and "" are falsy.
EffectivePassword(pw) == IF pw \in {Undefined, ""} THEN DefaultPassword ELSE pw

\* The wallet object createWalletAccount resolves to: the three fields the code
\* reads, and the backedUp flag the specification gives a WalletAccount.
EvmWallet(a, b) ==
    [accountAddress |-> a, walletId |-> a, publicKeyHex |-> a, backedUp |-> b]

\* const walletInfo: WalletInfo = { accountAddress, walletId, publicKeyHex }
WalletInfo(w) ==
    [kind |-> "WalletInfo", accountAddress |-> w.accountAddress,
     walletId |-> w.walletId, publicKeyHex |-> w.publicKeyHex]

\* return { evmClient, walletAddress }
WalletHandle(c, a) == [kind |-> "WalletHandle", evmClient |-> c, walletAddress |-> a]

---------------------------------------------------------------------------
Init ==
    /\ pc = [p \in Procs |-> "idle"]
    /\ op = [p \in Procs |-> Idle]
    /\ client = [p \in Procs |-> 0]
    /\ calls = [p \in Procs |-> <<>>]
    /\ logged = [p \in Procs |-> <<>>]
    /\ result = [p \in Procs |-> Pending]
    /\ wallets = {}
    /\ nextClient = 0
    /\ opsStarted = 0

---------------------------------------------------------------------------
(* Shared steps. *)

\* A caller issues a top-level call: the operation's locals start empty.
Begin(p, kind, a, pw, firstLogs) ==
    /\ pc[p] \in {"idle", "done"}
    /\ opsStarted < MaxOps
    /\ opsStarted' = opsStarted + 1
    /\ op' = [op EXCEPT ![p] = [kind |-> kind, addr |-> a, password |-> pw]]
    /\ pc' = [pc EXCEPT ![p] = "auth"]
    /\ client' = [client EXCEPT ![p] = 0]
    /\ calls' = [calls EXCEPT ![p] = <<>>]
    /\ logged' = [logged EXCEPT ![p] = firstLogs]
    /\ result' = [result EXCEPT ![p] = Pending]
    /\ UNCHANGED <<wallets, nextClient>>

\* Whether control reaches the statement after
\* `await client.authenticateApiToken(...)`: a rejected await throws.
AuthSucceeded_unawaited(t) == TRUE

AuthSucceeded(t) == t = NoThrow

\* authenticatedEvmClient: a new client object, then authenticateApiToken on it,
\* which throws t (NoThrow: it resolves).
authenticatedEvmClient(p, t) ==
    /\ nextClient' = nextClient + 1
    /\ client' = [client EXCEPT ![p] = nextClient + 1]
    /\ calls' = [calls EXCEPT ![p] =
                    Append(@, Call("authenticateApiToken", nextClient + 1, NoAddr,
                                   Undefined, "", t, NoThrow))]

\* The operation ends: r is what the caller receives, ls what was logged last.
Finish(p, r, ls) ==
    /\ pc' = [pc EXCEPT ![p] = "done"]
    /\ result' = [result EXCEPT ![p] = r]
    /\ logged' = [logged EXCEPT ![p] = @ \o ls]

\* The operation goes on to the await at `next`.
Goto(p, next, ls) ==
    /\ pc' = [pc EXCEPT ![p] = next]
    /\ logged' = [logged EXCEPT ![p] = @ \o ls]
    /\ UNCHANGED result

\* The outcomes of createWalletAccount: <<thrown, passed to onError, address>>.
\* It resolves to a wallet at a fresh address, or throws; either way it may
\* have called onError first.
CreateOutcomes ==
    LET fresh == Cardinality(wallets) + 1
        cb == {NoThrow} \cup OnErrorValues
    IN  {<<NoThrow, e, fresh>> : e \in {x \in cb : fresh <= MaxWallets}}
        \cup {<<t, e, NoAddr>> : t \in CreateThrows, e \in cb}

\* evmClient.createWalletAccount({ thresholdSignatureScheme: TWO_OF_TWO,
\*   password, onError, backUpToClientShareService: true }) with outcome o.
createWalletAccount(p, pw, o) ==
    /\ calls' = [calls EXCEPT ![p] =
                    Append(@, Call("createWalletAccount", client[p], o[3], pw,
                                   "", o[1], o[2]))]
    /\ wallets' = IF o[1] = NoThrow THEN wallets \cup {o[3]} ELSE wallets

\* onError: (error) => { console.error("EVM wallet creation error:", error) }
onError(e) == IF e = NoThrow THEN <<>> ELSE <<Log("EVM wallet creation error:", e)>>

---------------------------------------------------------------------------
(* createNewWallet(password?), and main, which calls it. *)

\* What createNewWallet hands back once createWalletAccount has ended with o:
\* the WalletInfo when it resolved, the caught error rethrown otherwise.  What
\* onError received is not part of either.
createNewWalletResult_failsOnError(o) ==
    IF o[1] # NoThrow THEN Threw(o[1])
    ELSE IF o[2] # NoThrow THEN Threw(o[2])
    ELSE Returned(WalletInfo(EvmWallet(o[3], TRUE)))

createNewWalletResult(o) ==
    IF o[1] = NoThrow
    THEN Returned(WalletInfo(EvmWallet(o[3], o[2] = NoThrow)))
    ELSE Threw(o[1])

\* The console lines of createNewWallet's last part for result r.
createNewWalletLogs(r) ==
    IF r.status = "returned"
    THEN <<Log("New wallet created successfully!", Text(<<>>)),
           Log("Address:", Text(<<"accountAddress">>)),
           Log("Wallet ID:", Text(<<"walletId">>)),
           Log("Public Key:", Text(<<"publicKeyHex">>))>>
    ELSE <<Log("Wallet creation failed:", r.thrown)>>

\* main: `const newWallet = await createNewWallet("my-secure-password")` inside
\* try/catch: it logs the wallet or the error and resolves to undefined.
mainLogs(r) ==
    IF r.status = "returned"
    THEN <<Log("New Wallet Address:", Text(<<"WalletInfo">>))>>
    ELSE <<Log("Main execution failed:", r.thrown)>>

\* What the caller of the top-level function of kind k receives when
\* createNewWallet ends with r, and the lines logged on the way.
Outer(k, r) == IF k = "main" THEN Returned(NoValue) ELSE r

OuterLogs(k, r) == IF k = "main" THEN mainLogs(r) ELSE <<>>

createNewWallet(p) ==
    \E pw \in PasswordArgs :
        /\ Begin(p, "createNewWallet", NoAddr, pw, <<>>)

main(p) ==
    Begin(p, "main", NoAddr, MainPassword,
          <<Log("Starting wallet operations...", Text(<<>>)),
            Log("=== Creating New Wallet ===", Text(<<>>))>>)

createNewWallet_auth(p) ==
    /\ pc[p] = "auth"
    /\ op[p].kind \in {"createNewWallet", "main"}
    /\ \E t \in {NoThrow} \cup AuthThrows :
        /\ authenticatedEvmClient(p, t)
        /\ IF AuthSucceeded(t)
           THEN Goto(p, "create", <<>>)
           ELSE Finish(p, Outer(op[p].kind, Threw(t)),
                       createNewWalletLogs(Threw(t)) \o OuterLogs(op[p].kind, Threw(t)))
    /\ UNCHANGED <<op, wallets, opsStarted>>

createNewWallet_create(p) ==
    /\ pc[p] = "create"
    /\ op[p].kind \in {"createNewWallet", "main"}
    /\ \E o \in CreateOutcomes :
        LET r == createNewWalletResult(o)
        IN  /\ createWalletAccount(p, EffectivePassword(op[p].password), o)
            /\ Finish(p, Outer(op[p].kind, r),
                      onError(o[2]) \o createNewWalletLogs(r) \o OuterLogs(op[p].kind, r))
    /\ UNCHANGED <<op, client, nextClient, opsStarted>>

---------------------------------------------------------------------------
(* main of the quick-start script (src/unnamed/part_000). *)

main_part_000(p) == Begin(p, "main_part_000", NoAddr, DefaultPassword, <<>>)

main_part_000_auth(p) ==
    /\ pc[p] = "auth"
    /\ op[p].kind = "main_part_000"
    /\ \E t \in {NoThrow} \cup AuthThrows :
        /\ authenticatedEvmClient(p, t)
        /\ IF AuthSucceeded(t)
           THEN Goto(p, "create", <<>>)
           ELSE Finish(p, Returned(NoValue), <<Log("Error:", t)>>)
    /\ UNCHANGED <<op, wallets, opsStarted>>

main_part_000_create(p) ==
    /\ pc[p] = "create"
    /\ op[p].kind = "main_part_000"
    /\ \E o \in CreateOutcomes :
        /\ createWalletAccount(p, op[p].password, o)
        /\ Finish(p, Returned(NoValue),
                  onError(o[2]) \o
                  (IF o[1] = NoThrow
                   THEN <<Log("EVM wallet created:", Text(<<"accountAddress">>))>>
                   ELSE <<Log("Error:", o[1])>>))
    /\ UNCHANGED <<op, client, nextClient, opsStarted>>

---------------------------------------------------------------------------
(* initializeExistingWallet(walletAddress) and checkWalletExists. *)

\* What checkWalletExists throws when anything in its try block threw e:
\* throw new Error(`Wallet verification failed: ${errorMessage}`)
checkWalletExistsThrown_rethrow(e) == e

checkWalletExistsThrown(e) ==
    [tag |-> "Error",
     message |-> <<"Wallet verification failed: ">> \o ErrorMessage(e)]

\* publicClient.getBalance({ address }) on the chain read client built from
\* the wallet client; t is what it throws.  The dynamic imports and
\* createViemPublicClient stand in the same try block: a throw of theirs
\* is handled as a throw of getBalance is.
getBalance(p, t) ==
    calls' = [calls EXCEPT ![p] =
                 Append(@, Call("getBalance", client[p], op[p].addr, Undefined,
                                "", t, NoThrow))]

initializeExistingWallet(p) ==
    \E a \in Addrs : Begin(p, "initializeExistingWallet", a, Undefined, <<>>)

initializeExistingWallet_auth(p) ==
    /\ pc[p] = "auth"
    /\ op[p].kind = "initializeExistingWallet"
    /\ \E t \in {NoThrow} \cup AuthThrows :
        /\ authenticatedEvmClient(p, t)
        /\ IF AuthSucceeded(t)
           THEN Goto(p, "checkWalletExists",
                     <<Log("Initializing existing wallet:", Text(<<"walletAddress">>))>>)
           ELSE Finish(p, Threw(t), <<Log("Failed to initialize wallet:", t)>>)
    /\ UNCHANGED <<op, wallets, opsStarted>>

initializeExistingWallet_checkWalletExists(p) ==
    /\ pc[p] = "checkWalletExists"
    /\ op[p].kind = "initializeExistingWallet"
    /\ \E t \in {NoThrow} \cup ChainThrows :
        /\ getBalance(p, t)
        /\ IF t = NoThrow
           THEN Finish(p, Returned(WalletHandle(client[p], op[p].addr)),
                       <<Log("Wallet initialized successfully!", Text(<<>>))>>)
           ELSE Finish(p, Threw(checkWalletExistsThrown(t)),
                       <<Log("Failed to initialize wallet:", checkWalletExistsThrown(t))>>)
    /\ UNCHANGED <<op, client, wallets, nextClient, opsStarted>>

---------------------------------------------------------------------------
(* performWalletOperations(walletAddress, password) and its three steps. *)

\* What signMessage's catch block throws on to performWalletOperations when
\* signing or verifying threw e: it logs the message and throws nothing.
signMessageRethrown_rethrow(e) == e

signMessageRethrown(e) == NoThrow

\* The external calls prepareTransaction makes on client c for address a,
\* the request throwing t: publicClient.prepareTransactionRequest only.
prepareTransactionCalls_signs(c, a, t) ==
    <<Call("prepareTransactionRequest", c, a, Undefined, "", t, NoThrow),
      Call("signMessage", c, a, Undefined, "sig", NoThrow, NoThrow)>>

prepareTransactionCalls(c, a, t) ==
    <<Call("prepareTransactionRequest", c, a, Undefined, "", t, NoThrow)>>

performWalletOperations(p) ==
    \E a \in Addrs :
        Begin(p, "performWalletOperations", a, MainPassword,
              <<Log("--- Wallet Operations ---", Text(<<>>))>>)

performWalletOperations_auth(p) ==
    /\ pc[p] = "auth"
    /\ op[p].kind = "performWalletOperations"
    /\ \E t \in {NoThrow} \cup AuthThrows :
        /\ authenticatedEvmClient(p, t)
        /\ IF AuthSucceeded(t)
           THEN Goto(p, "checkBalance", <<>>)
           ELSE Finish(p, Returned(NoValue), <<Log("Wallet operations failed:", t)>>)
    /\ UNCHANGED <<op, wallets, opsStarted>>

checkBalance(p) ==
    /\ pc[p] = "checkBalance"
    /\ \E t \in {NoThrow} \cup ChainThrows :
        /\ getBalance(p, t)
        /\ Goto(p, "signMessage",
                IF t = NoThrow
                THEN <<Log("Balance:", Text(<<"wei">>)),
                       Log("Balance in ETH:", Text(<<"eth">>))>>
                ELSE <<Log("Balance check failed:", Text(ErrorMessage(t)))>>)
    /\ UNCHANGED <<op, client, wallets, nextClient, opsStarted>>

\* After signMessage's catch block has handled e: on to prepareTransaction,
\* or, had the block thrown, to the catch of performWalletOperations.
AfterSignMessageCatch(p, e) ==
    LET ls == <<Log("Message signing failed:", Text(ErrorMessage(e)))>>
        up == signMessageRethrown(e)
    IN  IF up = NoThrow
        THEN Goto(p, "prepareTransaction", ls)
        ELSE Finish(p, Returned(NoValue),
                    ls \o <<Log("Wallet operations failed:", up)>>)

\* signMessage, first await: evmClient.signMessage({ message, accountAddress, password })
signMessage(p) ==
    /\ pc[p] = "signMessage"
    /\ \E t \in {NoThrow} \cup SignThrows, sig \in Signatures :
        /\ calls' = [calls EXCEPT ![p] =
                        Append(@, Call("signMessage", client[p], op[p].addr,
                                       op[p].password,
                                       IF t = NoThrow THEN sig ELSE "", t, NoThrow))]
        /\ IF t = NoThrow
           THEN Goto(p, "verifyMessageSignature",
                     <<Log("Message signed:", Text(<<"message">>)),
                       Log("Signature:", Text(<<sig>>))>>)
           ELSE AfterSignMessageCatch(p, t)
    /\ UNCHANGED <<op, client, wallets, nextClient, opsStarted>>

\* signMessage, second await:
\* evmClient.verifyMessageSignature({ accountAddress, message, signature })
\* with the signature the first await returned.
verifyMessageSignature(p) ==
    /\ pc[p] = "verifyMessageSignature"
    /\ \E t \in {NoThrow} \cup VerifyThrows, isValid \in {"true", "false"} :
        /\ t # NoThrow => isValid = "false"
        /\ calls' = [calls EXCEPT ![p] =
                        Append(@, [Call("verifyMessageSignature", client[p],
                                        op[p].addr, Undefined,
                                        IF t = NoThrow THEN isValid ELSE "", t, NoThrow)
                                   EXCEPT !.signature = calls[p][Len(calls[p])].ret])]
        /\ IF t = NoThrow
           THEN Goto(p, "prepareTransaction",
                     <<Log("Signature verification:",
                           Text(IF isValid = "true" THEN <<"Valid">> ELSE <<"Invalid">>))>>)
           ELSE AfterSignMessageCatch(p, t)
    /\ UNCHANGED <<op, client, wallets, nextClient, opsStarted>>

prepareTransaction(p) ==
    /\ pc[p] = "prepareTransaction"
    /\ \E t \in {NoThrow} \cup ChainThrows :
        /\ calls' = [calls EXCEPT ![p] =
                        @ \o prepareTransactionCalls(client[p], op[p].addr, t)]
        /\ Finish(p, Returned(NoValue),
                  IF t = NoThrow
                  THEN <<Log("Transaction prepared:", Text(<<"to", "value", "gas", "gasPrice">>)),
                         Log("Note: Transaction not sent", Text(<<>>))>>
                  ELSE <<Log("Transaction preparation failed:", Text(ErrorMessage(t)))>>)
    /\ UNCHANGED <<op, client, wallets, nextClient, opsStarted>>

---------------------------------------------------------------------------
(* demonstrateSecurity(). *)

\* The catch block of demonstrateSecurity for a thrown e.
demonstrateSecurityCatch(e) ==
    <<Log("Security working! Cannot access unauthorized wallet:", Text(<<>>)),
      Log("Error:", Text(AccessDeniedMessage(e)))>>

demonstrateSecurity(p) ==
    Begin(p, "demonstrateSecurity", randomWalletAddress, "any-password",
          <<Log("Security Demonstration:", Text(<<>>))>>)

demonstrateSecurity_auth(p) ==
    /\ pc[p] = "auth"
    /\ op[p].kind = "demonstrateSecurity"
    /\ \E t \in {NoThrow} \cup AuthThrows :
        /\ authenticatedEvmClient(p, t)
        /\ IF AuthSucceeded(t)
           THEN Goto(p, "demonstrateSecurity_sign",
                     <<Log("Attempting to sign with unauthorized wallet:",
                           Text(<<"randomWalletAddress">>))>>)
           ELSE Finish(p, Returned(NoValue), demonstrateSecurityCatch(t))
    /\ UNCHANGED <<op, wallets, opsStarted>>

demonstrateSecurity_sign(p) ==
    /\ pc[p] = "demonstrateSecurity_sign"
    /\ \E t \in {NoThrow} \cup SignThrows, sig \in Signatures :
        /\ calls' = [calls EXCEPT ![p] =
                        Append(@, Call("signMessage", client[p], op[p].addr,
                                       op[p].password,
                                       IF t = NoThrow THEN sig ELSE "", t, NoThrow))]
        /\ Finish(p, Returned(NoValue),
                  IF t = NoThrow
                  THEN <<Log("This should not work!", Text(<<>>))>>
                  ELSE demonstrateSecurityCatch(t))
    /\ UNCHANGED <<op, client, wallets, nextClient, opsStarted>>

---------------------------------------------------------------------------
Next ==
    \E p \in Procs :
        \/ createNewWallet(p)
        \/ main(p)
        \/ createNewWallet_auth(p)
        \/ createNewWallet_create(p)
        \/ main_part_000(p)
        \/ main_part_000_auth(p)
        \/ main_part_000_create(p)
        \/ initializeExistingWallet(p)
        \/ initializeExistingWallet_auth(p)
        \/ initializeExistingWallet_checkWalletExists(p)
        \/ performWalletOperations(p)
        \/ performWalletOperations_auth(p)
        \/ checkBalance(p)
        \/ signMessage(p)
        \/ verifyMessageSignature(p)
        \/ prepareTransaction(p)
        \/ demonstrateSecurity(p)
        \/ demonstrateSecurity_auth(p)
        \/ demonstrateSecurity_sign(p)

Spec == Init /\ [][Next]_vars

---------------------------------------------------------------------------
(* Properties. *)

Done(p, kind) == pc[p] = "done" /\ op[p].kind = kind

\* The calls of p's operation named fn that threw.
Failed(p, fns) ==
    {i \in 1..Len(calls[p]) : calls[p][i].fn \in fns /\ calls[p][i].thrown # NoThrow}

HasLog(p, l) == \E i \in 1..Len(logged[p]) : logged[p][i] = l

\* Every operation's first call is authenticateApiToken, on a client object it
\* built itself; every later call is made on that client, and only after that
\* authentication returned.
AuthFirst ==
    \A p \in Procs : \A i \in 1..Len(calls[p]) :
        /\ (i = 1) <=> (calls[p][i].fn = "authenticateApiToken")
        /\ calls[p][i].client = client[p]
        /\ i > 1 => calls[p][1].thrown = NoThrow

\* Two operations in flight never hold the same client object.
DistinctClients ==
    \A p, q \in Procs : (p # q /\ client[p] # 0) => client[p] # client[q]

\* A client object an operation takes up is one constructed in that step.
FreshClient ==
    \A p \in Procs :
        (client'[p] # client[p] /\ client'[p] # 0) =>
            (client'[p] > nextClient /\ Len(calls[p]) = 0)

\* C10: each top-level operation first builds a client of its own and awaits
\* authenticateApiToken on it, no client being shared between operations; when
\* that authentication throws, the operation makes no other external call.
C10_AuthenticationFirst == [](AuthFirst /\ DistinctClients) /\ [][FreshClient]_vars

\* One operation stopped at a failed authentication with that single call made,
\* another went on with its own client after a successful one.
C10_Witness ==
    \E p, q \in Procs :
        /\ Done(p, "createNewWallet")
        /\ Len(calls[p]) = 1
        /\ calls[p][1].thrown # NoThrow
        /\ op[q].kind = "performWalletOperations"
        /\ Len(calls[q]) >= 3
        /\ client[q] # client[p]

\* The step of prepareTransaction by p: it adds one prepareTransactionRequest
\* call and nothing else, hands no value back, and changes no wallet, client or
\* other operation.
PrepareStepReadsOnly(p) ==
    (pc[p] = "prepareTransaction" /\ pc'[p] # pc[p]) =>
        /\ Len(calls'[p]) = Len(calls[p]) + 1
        /\ SubSeq(calls'[p], 1, Len(calls[p])) = calls[p]
        /\ calls'[p][Len(calls'[p])].fn = "prepareTransactionRequest"
        /\ calls'[p][Len(calls'[p])].addr = op[p].addr
        /\ result'[p] = Returned(NoValue)
        /\ wallets' = wallets
        /\ client' = client
        /\ \A q \in Procs \ {p} : calls'[q] = calls[q] /\ result'[q] = result[q]

\* C8: prepareTransaction only reads from the chain client: whether the request
\* returns or throws, it makes no signMessage, createWalletAccount or sending
\* call, returns no signature, and leaves the wallets unchanged.
C8_PrepareDecoupled == [][\A p \in Procs : PrepareStepReadsOnly(p)]_vars

\* Two operations have finished prepareTransaction, one with the request
\* returning and one with the request throwing.
C8_Witness ==
    \E p, q \in Procs :
        /\ Done(p, "performWalletOperations")
        /\ Done(q, "performWalletOperations")
        /\ calls[p][Len(calls[p])].fn = "prepareTransactionRequest"
        /\ calls[p][Len(calls[p])].thrown = NoThrow
        /\ calls[q][Len(calls[q])].fn = "prepareTransactionRequest"
        /\ calls[q][Len(calls[q])].thrown # NoThrow

\* C2 as stated: with a valid session, initializeExistingWallet returns only
\* for an address this client controls a share of, and answers Unauthorized for
\* an existing address created elsewhere.
C2_Original ==
    \A p \in Procs :
        (Done(p, "initializeExistingWallet") /\ Len(calls[p]) = 2) =>
            /\ result[p].status = "returned" => op[p].addr \in wallets
            /\ op[p].addr = ForeignAddr => result[p] = Threw(Err("Unauthorized"))

\* C2, amended: initializeExistingWallet authenticates and then only reads the
\* address's balance.  It returns { evmClient, walletAddress } exactly when both
\* calls return, whatever the address; an authentication failure is rethrown
\* as thrown; a failed balance read reaches the caller as a new Error
\* "Wallet verification failed: <message>", never as the value thrown; and it
\* never calls createWalletAccount.
C2_InitializeReadsBalanceOnly ==
    \A p \in Procs :
        Done(p, "initializeExistingWallet") =>
            LET cs == calls[p]
                ok == Len(cs) = 2 /\ cs[1].thrown = NoThrow /\ cs[2].thrown = NoThrow
            IN  /\ \A i \in 1..Len(cs) : cs[i].fn \in {"authenticateApiToken", "getBalance"}
                /\ (result[p].status = "returned") <=> ok
                /\ ok => result[p] = Returned(WalletHandle(client[p], op[p].addr))
                /\ Len(cs) = 1 => result[p] = Threw(cs[1].thrown)
                /\ (Len(cs) = 2 /\ ~ok) =>
                      /\ result[p].status = "threw"
                      /\ result[p].thrown.tag = "Error"
                      /\ result[p].thrown.message =
                            <<"Wallet verification failed: ">> \o ErrorMessage(cs[2].thrown)
                      /\ result[p].thrown # cs[2].thrown

\* initializeExistingWallet has returned a handle for an address this client
\* never created, and in another run of it the balance read threw Unauthorized.
C2_Witness ==
    \E p, q \in Procs :
        /\ Done(p, "initializeExistingWallet")
        /\ op[p].addr = ForeignAddr
        /\ result[p].status = "returned"
        /\ Done(q, "initializeExistingWallet")
        /\ Failed(q, {"getBalance"}) # {}
        /\ calls[q][2].thrown = Err("Unauthorized")

\* createWalletAccount ended with the key generation done and the backup
\* failed, as the package can tell it: BackupFailed handed to onError with the
\* wallet returned, or BackupFailed thrown.
BackupFailedSeen(p) ==
    /\ Len(calls[p]) = 2
    /\ \/ calls[p][2].thrown = NoThrow /\ calls[p][2].onError = Err("BackupFailed")
       \/ calls[p][2].thrown = Err("BackupFailed")

\* C3 as stated: when the backup fails after key generation, the caller of
\* createNewWallet receives BackupFailed together with the usable wallet.
C3_Original ==
    \A p \in Procs :
        (Done(p, "createNewWallet") /\ BackupFailedSeen(p)) =>
            /\ result[p].value.kind = "WalletInfo"
            /\ result[p].thrown = Err("BackupFailed")

\* C3, amended: the caller of createNewWallet receives either the wallet or
\* the error, never both.  When createWalletAccount returns, createNewWallet
\* returns { accountAddress, walletId, publicKeyHex } of the new wallet, with no
\* backup flag, and an error handed to onError meanwhile is only written to
\* the console; when createWalletAccount throws, createNewWallet rethrows that
\* value and returns no wallet.
C3_WalletOrError ==
    \A p \in Procs :
        (Done(p, "createNewWallet") /\ Len(calls[p]) = 2) =>
            LET c == calls[p][2]
            IN  /\ c.fn = "createWalletAccount"
                /\ c.password = EffectivePassword(op[p].password)
                /\ c.thrown = NoThrow =>
                      /\ result[p].status = "returned"
                      /\ result[p].thrown = NoThrow
                      /\ DOMAIN result[p].value =
                            {"kind", "accountAddress", "walletId", "publicKeyHex"}
                      /\ result[p].value.accountAddress = c.addr
                      /\ c.addr \in wallets
                      /\ c.onError # NoThrow =>
                            HasLog(p, Log("EVM wallet creation error:", c.onError))
                /\ c.thrown # NoThrow => result[p] = Threw(c.thrown)

\* createNewWallet has returned a wallet although BackupFailed was handed to
\* onError during createWalletAccount.
C3_Witness ==
    \E p \in Procs :
        /\ Done(p, "createNewWallet")
        /\ BackupFailedSeen(p)
        /\ calls[p][2].onError = Err("BackupFailed")
        /\ result[p].status = "returned"
        /\ result[p].value.accountAddress \in wallets

AuthorizationFailures ==
    {Err("Unauthorized"), Err("NoLocalShare"), Err("PasswordMismatch")}

\* C5 as stated: when the sign step of performWalletOperations, or the check
\* of initializeExistingWallet, throws Unauthorized, NoLocalShare or
\* PasswordMismatch, the caller of the top-level operation receives that
\* very error.
C5_Original ==
    \A p \in Procs :
        /\ Done(p, "performWalletOperations") =>
              \A i \in Failed(p, {"signMessage"}) :
                  calls[p][i].thrown \in AuthorizationFailures =>
                      result[p] = Threw(calls[p][i].thrown)
        /\ Done(p, "initializeExistingWallet") =>
              \A i \in Failed(p, {"getBalance"}) :
                  calls[p][i].thrown \in AuthorizationFailures =>
                      result[p] = Threw(calls[p][i].thrown)

\* C5, amended: performWalletOperations never throws.  A value thrown by
\* signMessage or verifyMessageSignature is caught inside signMessage, its
\* message ("Unknown error" for a non-Error) written to the console after
\* "Message signing failed:", and the operation goes on to prepareTransaction
\* and resolves to undefined.  A value thrown by the balance read of
\* initializeExistingWallet reaches the caller wrapped in a new Error whose
\* message ends with the original message.
C5_SignFailureLoggedNotThrown ==
    \A p \in Procs :
        /\ Done(p, "performWalletOperations") =>
              /\ result[p] = Returned(NoValue)
              /\ \A i \in Failed(p, {"signMessage", "verifyMessageSignature"}) :
                    /\ HasLog(p, Log("Message signing failed:",
                                     Text(ErrorMessage(calls[p][i].thrown))))
                    /\ i + 1 = Len(calls[p])
                    /\ calls[p][i + 1].fn = "prepareTransactionRequest"
        /\ Done(p, "initializeExistingWallet") =>
              \A i \in Failed(p, {"getBalance"}) :
                  /\ result[p].status = "threw"
                  /\ result[p].thrown # calls[p][i].thrown
                  /\ result[p].thrown.message =
                        <<"Wallet verification failed: ">> \o ErrorMessage(calls[p][i].thrown)

\* performWalletOperations has resolved although its signMessage call threw
\* NoLocalShare.
C5_Witness ==
    \E p \in Procs :
        /\ Done(p, "performWalletOperations")
        /\ \E i \in Failed(p, {"signMessage"}) : calls[p][i].thrown = Err("NoLocalShare")
        /\ result[p].status = "returned"

====
